---- MODULE Spec2Model ----
(***************************************************************************)
(* A model of csvPlot.py: a one-shot command line script that resolves its *)
(* arguments, reads x / y / error columns from text files, optionally      *)
(* inverts and scales them, draws one series per file and shows or saves   *)
(* the figure.                                                             *)
(*                                                                         *)
(* Text is modelled at the character level: a text is a sequence of        *)
(* one-character strings, so that split, replace and float are computed    *)
(* the way the script computes them.  Python lists are sequences; the      *)
(* script's 0-based index i is kept and At(s, i) reads s[i].  A Python     *)
(* exception is modelled by its name in the variable err and pc =          *)
(* "crashed"; the empty name means no exception.                           *)
(***************************************************************************)
EXTENDS Integers, Sequences, FiniteSets, TLC

(***************************************************************************)
(* Bounds of the model.                                                    *)
(***************************************************************************)
\* number of input files of the pipeline and ingestion specifications
MaxFiles == 2
\* total number of lines over the input files of the ingestion specification
MaxLines == 3
\* number of input files of the style specification (exceeds both palettes)
MaxStyleFiles == 10

None == "None"
NoError == ""

(***************************************************************************)
(* Python sequence helpers.                                                *)
(***************************************************************************)
\* s[i] for a 0-based index i known to be in range
At(s, i) == s[i + 1]

\* [v] * n
Repeat(v, n) == [k \in 1..n |-> v]

\* s[0:n]
Slice(s, n) == SubSeq(s, 1, IF n < Len(s) THEN n ELSE Len(s))

\* s[:-1]
DropLast(s) == SubSeq(s, 1, Len(s) - 1)

(***************************************************************************)
(* str.split('\n'), str.replace(',', ' '), str.split() and float().        *)
(***************************************************************************)
NL == "\n"
Whitespace == {" ", "\t", "\r", NL}
DigitChars == <<"0", "1", "2", "3", "4", "5", "6", "7", "8", "9">>

\* the first position of character c in s, or 0
Find(s, c) ==
    IF \E k \in 1..Len(s) : s[k] = c
    THEN CHOOSE k \in 1..Len(s) : s[k] = c /\ \A j \in 1..(k - 1) : s[j] # c
    ELSE 0

\* text.split('\n'): the segments between newlines, always at least one
RECURSIVE SplitLines(_)
SplitLines(text) ==
    LET p == Find(text, NL)
    IN  IF p = 0 THEN <<text>>
        ELSE <<SubSeq(text, 1, p - 1)>> \o SplitLines(SubSeq(text, p + 1, Len(text)))

\* row.replace(',', ' ')
ReplaceCommas(row) == [k \in 1..Len(row) |-> IF row[k] = "," THEN " " ELSE row[k]]

\* the length of the leading run of s whose characters are (not) whitespace
RECURSIVE RunLen(_, _)
RunLen(s, ws) ==
    IF s = <<>> \/ ((Head(s) \in Whitespace) # ws) THEN 0
    ELSE 1 + RunLen(Tail(s), ws)

\* row.split(): the maximal runs of non-whitespace characters
RECURSIVE SplitWords(_)
SplitWords(row) ==
    LET t == SubSeq(row, RunLen(row, TRUE) + 1, Len(row))
        n == RunLen(t, FALSE)
    IN  IF t = <<>> THEN <<>>
        ELSE <<SubSeq(t, 1, n)>> \o SplitWords(SubSeq(t, n + 1, Len(t)))

IsDigit(c) == \E d \in 1..10 : DigitChars[d] = c
DigitVal(c) == (CHOOSE d \in 1..10 : DigitChars[d] = c) - 1

\* whether float(tok) succeeds: here the decimal numerals
IsFloat(tok) == Len(tok) > 0 /\ \A k \in 1..Len(tok) : IsDigit(tok[k])

\* float(tok) of a decimal numeral
RECURSIVE Float(_)
Float(tok) ==
    IF tok = <<>> THEN 0
    ELSE 10 * Float(DropLast(tok)) + DigitVal(tok[Len(tok)])

(***************************************************************************)
(* read_in_data.                                                           *)
(***************************************************************************)
\* the exception of [float(row[c]) for row in table]: that of the first row
\* that has no column c (IndexError) or a column c float() rejects
ColumnError(table, c) ==
    LET bad == {k \in 1..Len(table) : Len(table[k]) <= c \/ ~IsFloat(At(table[k], c))}
    IN  IF bad = {} THEN NoError
        ELSE LET k == CHOOSE b \in bad : \A o \in bad : b <= o
             IN  IF Len(table[k]) <= c THEN "IndexError" ELSE "ValueError"

\* [float(row[c]) for row in table]
Column(table, c) == [k \in 1..Len(table) |-> Float(At(table[k], c))]

\* np.asarray([0.]*len(rows))
Zeros(table) == Repeat(0, Len(table))

NotAt(row) == row[1] # "@"
NotHash(row) == row[1] # "#"

\* lines 97-102: the rows of one file's text, split into columns; row[0] of
\* an empty row raises IndexError
ParseRows(text) ==
    LET rows == DropLast(SplitLines(text))
    IN  IF \E k \in 1..Len(rows) : rows[k] = <<>>
        THEN [err |-> "IndexError", table |-> <<>>]
        ELSE LET kept == SelectSeq(SelectSeq(rows, NotAt), NotHash)
             IN  [err |-> NoError,
                  table |-> [k \in 1..Len(kept) |-> SplitWords(ReplaceCommas(kept[k]))]]

\* a faulty variant of ErrorColumn: the flag is ignored
ErrorColumnIgnoresFlag(table, flag) ==
    IF ColumnError(table, 2) = NoError THEN Column(table, 2) ELSE Zeros(table)

\* lines 106-113: the error column of file i under the flag list eflags
ErrorColumn(table, flag) ==
    IF flag = "y"
    THEN IF ColumnError(table, 2) = NoError THEN Column(table, 2) ELSE Zeros(table)
    ELSE Zeros(table)

\* lines 104-113 for file i, given its rows split into columns
ParseColumns(table, eflags, i) ==
    LET fail(name) == [err |-> name, x |-> <<>>, y |-> <<>>, e |-> <<>>]
    IN  IF ColumnError(table, 0) # NoError THEN fail(ColumnError(table, 0))
        ELSE IF ColumnError(table, 1) # NoError THEN fail(ColumnError(table, 1))
        ELSE IF i >= Len(eflags) THEN fail("IndexError")
        ELSE [err |-> NoError,
              x |-> Column(table, 0),
              y |-> Column(table, 1),
              e |-> ErrorColumn(table, At(eflags, i))]

\* lines 95-113 for file i: a record of err and the three columns
ParseFile(text, eflags, i) ==
    LET p == ParseRows(text)
    IN  IF p.err # NoError THEN [err |-> p.err, x |-> <<>>, y |-> <<>>, e |-> <<>>]
        ELSE ParseColumns(p.table, eflags, i)

\* the results of the files from file i on, or the first exception
RECURSIVE ParseFrom(_, _, _)
ParseFrom(texts, eflags, i) ==
    IF i >= Len(texts) THEN <<>>
    ELSE <<ParseFile(At(texts, i), eflags, i)>> \o ParseFrom(texts, eflags, i + 1)

\* lines 95-115: the files are parsed in order and the first exception ends it
ParseAll(texts, eflags) ==
    LET rs == ParseFrom(texts, eflags, 0)
        bad == {k \in 1..Len(rs) : rs[k].err # NoError}
    IN  IF bad # {}
        THEN [err |-> rs[CHOOSE b \in bad : \A o \in bad : b <= o].err,
              xs |-> <<>>, ys |-> <<>>, es |-> <<>>]
        ELSE [err |-> NoError,
              xs |-> [k \in 1..Len(rs) |-> rs[k].x],
              ys |-> [k \in 1..Len(rs) |-> rs[k].y],
              es |-> [k \in 1..Len(rs) |-> rs[k].e]]

(***************************************************************************)
(* The input files.  A file on disk is described by its lines and whether  *)
(* its last line ends with a newline; a line by what starts it and its     *)
(* fields.  FileText is the text open(f).read() returns.                   *)
(***************************************************************************)
Num(n) == [val |-> n, word |-> ""]
Word(w) == [val |-> 0, word |-> w]
MkLine(lead, toks, sep) == [lead |-> lead, toks |-> toks, sep |-> sep]
MkFile(lines, nl) == [exists |-> TRUE, lines |-> lines, nl |-> nl]
MissingFile == [exists |-> FALSE, lines |-> <<>>, nl |-> TRUE]

\* the decimal numeral of n
RECURSIVE Numeral(_)
Numeral(n) ==
    IF n < 10 THEN <<DigitChars[n + 1]>>
    ELSE Numeral(n \div 10) \o <<DigitChars[(n % 10) + 1]>>

TokText(t) == IF t.word # "" THEN <<t.word>> ELSE Numeral(t.val)

RECURSIVE JoinToks(_, _)
JoinToks(toks, sep) ==
    IF toks = <<>> THEN <<>>
    ELSE IF Len(toks) = 1 THEN TokText(toks[1])
    ELSE TokText(toks[1]) \o <<sep>> \o JoinToks(Tail(toks), sep)

LineText(l) == (IF l.lead = "" THEN <<>> ELSE <<l.lead>>) \o JoinToks(l.toks, l.sep)

RECURSIVE JoinLines(_, _)
JoinLines(lines, nl) ==
    IF lines = <<>> THEN <<>>
    ELSE IF Len(lines) = 1 THEN LineText(lines[1]) \o (IF nl THEN <<NL>> ELSE <<>>)
    ELSE LineText(lines[1]) \o <<NL>> \o JoinLines(Tail(lines), nl)

FileText(f) == JoinLines(f.lines, f.nl)

\* a faulty variant of ReadInData: a missing file reads as an empty one
ReadInDataSkipsMissing(fs, eflags) ==
    ParseAll([k \in 1..Len(fs) |-> FileText(fs[k])], eflags)

\* read_in_data(files, e)
ReadInData(fs, eflags) ==
    IF \E k \in 1..Len(fs) : ~fs[k].exists
    THEN [err |-> "FileNotFoundError", xs |-> <<>>, ys |-> <<>>, es |-> <<>>]
    ELSE ParseAll([k \in 1..Len(fs) |-> FileText(fs[k])], eflags)

(***************************************************************************)
(* The main routine.                                                       *)
(***************************************************************************)
\* argparse leaves an option that was not given None; a list option that
\* was given holds at least one value (nargs='+', nargs=1), so the empty
\* sequence stands for the None of a list option
Absent == <<>>

dpi == 300
DefaultColors ==
    <<"black", "red", "blue", "green", "purple", "magenta", "cyan", "orange", "yellow">>
DefaultEColors == <<"magenta", "blue", "cyan", "green", "orange", "red">>
DefaultLineWidth == 1
DefaultMarkerSize == 35   \* 3.5, in tenths
DefaultFit == -1
SplineDegree == 3
NumFitPoints == 100

VARIABLES
    args,        \* what parse_args() returns, the file list apart
    files,       \* the input files, in command line order
    errplt, histplt, linewidth, linestyle, marker, markersize, output,
    color, ecolor, fit, labels, sx, sy, invplot,
    x, y, e,     \* the data, one sequence per file
    i,           \* the plot loop's index
    calls,       \* the plotting library calls made so far, in order
    pc,          \* the script's position
    err          \* the uncaught exception, if any

settings == <<errplt, histplt, linewidth, linestyle, marker, markersize, output,
              color, ecolor, fit, labels, sx, sy, invplot>>
data == <<x, y, e>>
vars == <<args, files, settings, data, i, calls, pc, err>>

\* a faulty variant of ListOr: the default is not repeated per file
ListOrFirstOnly(v, d) == IF v # Absent THEN v ELSE Slice(d, 1)

\* v if v else d, for a list option
ListOr(v, d) == IF v # Absent THEN v ELSE d

\* v[0] if v else d, for a one-value option
FirstOr(v, d) == IF v # Absent THEN v[1] ELSE d

\* v if v else None, for a string option
StrOrNone(v) == IF v # None /\ v # "" THEN v ELSE None

\* a faulty variant of DefaultColorList: the palette is taken from its second colour
DefaultColorListShifted(n) == Slice(Tail(DefaultColors), n)

\* line 150: the default colours
DefaultColorList(n) == Slice(DefaultColors, n)

\* line 153: the default error bar colours
DefaultEColorList(n) == Slice(DefaultEColors, n)

\* line 157: range(len(files))
DefaultLabels(n) == [k \in 1..n |-> k - 1]

\* lines 131-170
ResolveArgs ==
    /\ pc = "args"
    /\ errplt' = ListOr(args.error, Repeat("n", Len(files)))
    /\ histplt' = FirstOr(args.hist, "n")
    /\ linewidth' = ListOr(args.linewidth, Repeat(DefaultLineWidth, Len(files)))
    /\ linestyle' = ListOr(args.linestyle, Repeat("-", Len(files)))
    /\ marker' = ListOr(args.marker, Repeat(" ", Len(files)))
    /\ markersize' = ListOr(args.markersize, Repeat(DefaultMarkerSize, Len(files)))
    /\ output' = StrOrNone(args.output)
    /\ color' = ListOr(args.color, DefaultColorList(Len(files)))
    /\ ecolor' = ListOr(args.ecolor, DefaultEColorList(Len(files)))
    /\ fit' = ListOr(args.fit, Repeat(DefaultFit, Len(files)))
    /\ labels' = ListOr(args.labels, DefaultLabels(Len(files)))
    /\ sx' = args.sx
    /\ sy' = args.sy
    /\ invplot' = FirstOr(args.invplot, "n")
    /\ pc' = "read"
    /\ UNCHANGED <<args, files, data, i, calls, err>>

\* line 173
ReadFiles ==
    /\ pc = "read"
    /\ \E r \in {ReadInData(files, errplt)} :
           /\ x' = r.xs
           /\ y' = r.ys
           /\ e' = r.es
           /\ err' = r.err
           /\ pc' = IF r.err = NoError THEN "inverse" ELSE "crashed"
    /\ UNCHANGED <<args, files, settings, i, calls>>

\* 1./v for a Python list v: float / list is not defined, whatever the
\* list holds (read_in_data returns lists of arrays, not arrays)
FloatOverList(v) == [err |-> "TypeError", val |-> v]

\* lines 176-180
InverseTransform ==
    /\ pc = "inverse"
    /\ LET rx == IF invplot \in {"x", "b"} THEN FloatOverList(x)
                 ELSE [err |-> NoError, val |-> x]
           ry == IF invplot \in {"y", "b"} THEN FloatOverList(y)
                 ELSE [err |-> NoError, val |-> y]
           re == IF invplot \in {"y", "b"} THEN FloatOverList(e)
                 ELSE [err |-> NoError, val |-> e]
           first == IF rx.err # NoError THEN rx.err
                    ELSE IF ry.err # NoError THEN ry.err ELSE re.err
       IN  /\ err' = first
           /\ pc' = IF first = NoError THEN "scale" ELSE "crashed"
           /\ x' = IF first = NoError THEN rx.val ELSE x
           /\ y' = IF first = NoError THEN ry.val ELSE y
           /\ e' = IF first = NoError THEN re.val ELSE e
    /\ UNCHANGED <<args, files, settings, i, calls>>

\* x[i] *= s[i]
ScaleArray(a, k) == [j \in 1..Len(a) |-> a[j] * k]

\* a faulty variant of scale_data: every array is scaled by the first factor
scale_data_first(v, s) ==
    [err |-> IF Len(s) < Len(v) THEN "IndexError" ELSE NoError,
     val |-> [k \in 1..Len(v) |-> IF k <= Len(s) THEN ScaleArray(v[k], s[1]) ELSE v[k]]]

\* scale_data(x, s): the arrays are scaled in place, in order, and s[i] of a
\* short s raises IndexError after the earlier arrays were scaled
scale_data(v, s) ==
    [err |-> IF Len(s) < Len(v) THEN "IndexError" ELSE NoError,
     val |-> [k \in 1..Len(v) |-> IF k <= Len(s) THEN ScaleArray(v[k], s[k]) ELSE v[k]]]

\* lines 183-187
ScaleData ==
    /\ pc = "scale"
    /\ LET rx == IF sx # Absent THEN scale_data(x, sx) ELSE [err |-> NoError, val |-> x]
           ry == IF rx.err = NoError /\ sy # Absent THEN scale_data(y, sy)
                 ELSE [err |-> NoError, val |-> y]
           re == IF rx.err = NoError /\ ry.err = NoError /\ sy # Absent
                 THEN scale_data(e, sy) ELSE [err |-> NoError, val |-> e]
           first == IF rx.err # NoError THEN rx.err
                    ELSE IF ry.err # NoError THEN ry.err ELSE re.err
       IN  /\ x' = rx.val
           /\ y' = ry.val
           /\ e' = re.val
           /\ err' = first
           /\ pc' = IF first = NoError THEN "figure" ELSE "crashed"
    /\ UNCHANGED <<args, files, settings, i, calls>>

\* line 191
Figure ==
    /\ pc = "figure"
    /\ calls' = Append(calls, [fn |-> "figure", dpi |-> dpi])
    /\ i' = 0
    /\ pc' = IF Len(y) > 0 THEN "plot" ELSE "cosmetics"
    /\ UNCHANGED <<args, files, settings, data, err>>

(***************************************************************************)
(* The plot loop, lines 192-210.                                           *)
(***************************************************************************)
Defined(s, k) == k < Len(s)

SeqMin(a) == CHOOSE m \in {a[k] : k \in 1..Len(a)} : \A k \in 1..Len(a) : m <= a[k]
SeqMax(a) == CHOOSE m \in {a[k] : k \in 1..Len(a)} : \A k \in 1..Len(a) : m >= a[k]
Abs(n) == IF n < 0 THEN -n ELSE n

\* a faulty variant of PlotMode: --hist is tested first
PlotModeHistFirst(eflags, hist, k) ==
    IF hist = "y" THEN "bar"
    ELSE IF At(eflags, k) = "y" THEN "errorbar"
    ELSE "plot"

\* lines 194-202: which drawing call series k gets
PlotMode(eflags, hist, k) ==
    IF At(eflags, k) = "y" THEN "errorbar"
    ELSE IF hist = "y" THEN "bar"
    ELSE "plot"

\* whether evaluating the arguments of the drawing call of series k raises
\* IndexError: a per-series list with no value k, or no second x value for
\* the bar width
PrimaryRaises(mode, k) ==
    CASE mode = "errorbar" ->
            \/ ~Defined(labels, k) \/ ~Defined(linewidth, k) \/ ~Defined(linestyle, k)
            \/ ~Defined(color, k) \/ ~Defined(marker, k) \/ ~Defined(ecolor, k)
            \/ ~Defined(markersize, k)
      [] mode = "bar" ->
            \/ ~Defined(color, k) \/ ~Defined(ecolor, k) \/ ~Defined(labels, k)
            \/ Len(At(x, k)) < 2
      [] OTHER ->
            \/ ~Defined(labels, k) \/ ~Defined(linewidth, k) \/ ~Defined(linestyle, k)
            \/ ~Defined(color, k) \/ ~Defined(marker, k) \/ ~Defined(markersize, k)

\* the call of plt.errorbar, plt.bar or plt.plot for series k
PrimaryCall(mode, k) ==
    CASE mode = "errorbar" ->
            [fn |-> "errorbar", series |-> k, x |-> At(x, k), y |-> At(y, k),
             yerr |-> At(e, k), label |-> At(labels, k), linewidth |-> At(linewidth, k),
             linestyle |-> At(linestyle, k), color |-> At(color, k),
             marker |-> At(marker, k), ecolor |-> At(ecolor, k),
             markersize |-> At(markersize, k)]
      [] mode = "bar" ->
            [fn |-> "bar", series |-> k, x |-> At(x, k), y |-> At(y, k),
             color |-> At(color, k), ecolor |-> At(ecolor, k),
             width |-> Abs(At(At(x, k), 0) - At(At(x, k), 1)), label |-> At(labels, k)]
      [] OTHER ->
            [fn |-> "plot", series |-> k, x |-> At(x, k), y |-> At(y, k),
             label |-> At(labels, k), linewidth |-> At(linewidth, k),
             linestyle |-> At(linestyle, k), color |-> At(color, k),
             marker |-> At(marker, k), markersize |-> At(markersize, k)]

\* a faulty variant of WantsFit: a smoothing factor of 0 is refused
WantsFitPositive(k) == At(fit, k) > 0

\* line 205
WantsFit(k) == At(fit, k) >= 0

\* line 208: a spline of the default degree needs more points than its degree
SplineFits(a) == Len(a) > SplineDegree

\* line 209: np.linspace(lo, hi, num), by its ends and its number of points
Linspace(lo, hi, num) == [start |-> lo, stop |-> hi, num |-> num]

\* lines 207-210: the call that draws the spline of series k
OverlayCall(k) ==
    [fn |-> "plot_fit", series |-> k, s |-> At(fit, k),
     xs |-> Linspace(SeqMin(At(x, k)), SeqMax(At(x, k)), NumFitPoints),
     linewidth |-> At(linewidth, k), color |-> At(color, k), linestyle |-> "-"]

\* one iteration of the loop
PlotSeries ==
    /\ pc = "plot"
    /\ LET mode == PlotMode(errplt, histplt, i)
           next == IF i + 1 < Len(y) THEN "plot" ELSE "cosmetics"
       IN  IF ~Defined(errplt, i) \/ PrimaryRaises(mode, i)
           THEN /\ err' = "IndexError"
                /\ pc' = "crashed"
                /\ UNCHANGED <<calls, i>>
           ELSE IF ~Defined(fit, i)
           THEN /\ calls' = Append(calls, PrimaryCall(mode, i))
                /\ err' = "IndexError"
                /\ pc' = "crashed"
                /\ UNCHANGED i
           ELSE IF ~WantsFit(i)
           THEN /\ calls' = Append(calls, PrimaryCall(mode, i))
                /\ i' = i + 1
                /\ pc' = next
                /\ UNCHANGED err
           ELSE IF ~SplineFits(At(x, i))
           THEN /\ calls' = Append(calls, PrimaryCall(mode, i))
                /\ err' = "SplineError"
                /\ pc' = "crashed"
                /\ UNCHANGED i
           ELSE /\ calls' = calls \o <<PrimaryCall(mode, i), OverlayCall(i)>>
                /\ i' = i + 1
                /\ pc' = next
                /\ UNCHANGED err
    /\ UNCHANGED <<args, files, settings, data>>

(***************************************************************************)
(* Axis cosmetics, lines 214-261, and the output, lines 265-272.           *)
(***************************************************************************)
Call(name) == [fn |-> name]
When(cond, cs) == IF cond THEN cs ELSE <<>>

CosmeticCalls ==
    <<Call("xlabel"), Call("ylabel"), Call("tick_params"), Call("minorticks_on"),
      Call("tick_params")>>
    \o When(FirstOr(args.logplot, "n") \in {"x", "b"}, <<Call("xscale")>>)
    \o When(FirstOr(args.logplot, "n") \in {"y", "b"}, <<Call("yscale")>>)
    \o When(args.xtics # Absent, <<Call("xaxis.set_major_locator"),
                                   Call("xaxis.set_minor_locator")>>)
    \o When(args.ytics # Absent, <<Call("yaxis.set_major_locator"),
                                   Call("yaxis.set_minor_locator")>>)
    \o <<Call("subplots_adjust")>>
    \o When(FirstOr(args.nolabels, "n") # "y", <<Call("legend")>>)
    \o When(args.xb # Absent, <<Call("xlim")>>)
    \o When(args.yb # Absent, <<Call("ylim")>>)
    \o When(args.label2 # Absent, <<Call("text")>>)

Cosmetics ==
    /\ pc = "cosmetics"
    /\ calls' = calls \o CosmeticCalls
    /\ pc' = "output"
    /\ UNCHANGED <<args, files, settings, data, i, err>>

\* a faulty variant of OutputCalls: the figure is shown but never closed
OutputCallsNoClose(out) ==
    IF out = None THEN <<Call("show")>>
    ELSE <<[fn |-> "savefig", path |-> out, dpi |-> dpi]>>

\* lines 265-269
OutputCalls(out) ==
    IF out = None THEN <<Call("show"), Call("close")>>
    ELSE <<[fn |-> "savefig", path |-> out, dpi |-> dpi]>>

Output ==
    /\ pc = "output"
    /\ calls' = calls \o OutputCalls(output)
    /\ pc' = "exit"
    /\ UNCHANGED <<args, files, settings, data, i, err>>

\* line 272
Exit ==
    /\ pc = "exit"
    /\ pc' = "done"
    /\ UNCHANGED <<args, files, settings, data, i, calls, err>>

Next ==
    \/ ResolveArgs
    \/ ReadFiles
    \/ InverseTransform
    \/ ScaleData
    \/ Figure
    \/ PlotSeries
    \/ Cosmetics
    \/ Output
    \/ Exit

(***************************************************************************)
(* Initial states: the command lines and input files explored.             *)
(***************************************************************************)
NoArgs ==
    [error |-> Absent, hist |-> Absent, linewidth |-> Absent, linestyle |-> Absent,
     marker |-> Absent, markersize |-> Absent, output |-> None, color |-> Absent,
     ecolor |-> Absent, fit |-> Absent, labels |-> Absent, sx |-> Absent,
     sy |-> Absent, invplot |-> Absent, logplot |-> Absent, xtics |-> Absent,
     ytics |-> Absent, nolabels |-> Absent, xb |-> Absent, yb |-> Absent,
     label2 |-> Absent]

\* every cosmetic option given
Decorated(a) ==
    [a EXCEPT !.logplot = <<"b">>, !.xtics = <<5, 1>>, !.ytics = <<5, 1>>,
              !.nolabels = <<"y">>, !.xb = <<0, 10>>, !.yb = <<0, 10>>,
              !.label2 = <<"a">>]

\* the state the script starts in, given its command line
Start(a, fs) ==
    /\ args = a
    /\ files = fs
    /\ errplt = <<>> /\ histplt = None /\ linewidth = <<>> /\ linestyle = <<>>
    /\ marker = <<>> /\ markersize = <<>> /\ output = None /\ color = <<>>
    /\ ecolor = <<>> /\ fit = <<>> /\ labels = <<>> /\ sx = <<>> /\ sy = <<>>
    /\ invplot = None
    /\ x = <<>> /\ y = <<>> /\ e = <<>>
    /\ i = 0
    /\ calls = <<>>
    /\ pc = "args"
    /\ err = NoError

\* four data lines with an error column, x not sorted
GoodFile ==
    MkFile(<<MkLine("", <<Num(3), Num(5), Num(1)>>, " "),
             MkLine("", <<Num(1), Num(6), Num(2)>>, ","),
             MkLine("#", <<Word("x")>>, " "),
             MkLine("", <<Num(4), Num(7), Num(1)>>, " "),
             MkLine("", <<Num(2), Num(8), Num(2)>>, " ")>>, TRUE)
\* one data line, no error column
ShortFile == MkFile(<<MkLine("", <<Num(1), Num(2)>>, " ")>>, TRUE)
\* a malformed y value
BadFile == MkFile(<<MkLine("", <<Num(6), Word("x")>>, " ")>>, TRUE)
\* a blank line before the data
BlankFile == MkFile(<<MkLine("", <<>>, " "), MkLine("", <<Num(1), Num(2)>>, " ")>>, TRUE)

PipelineFiles == {GoodFile, ShortFile, BadFile, BlankFile, MissingFile}

\* the whole pipeline over a few files and the data options
Init ==
    \E n \in 1..MaxFiles :
    \E fs \in [1..n -> PipelineFiles] :
    \E er \in {Absent, <<"y">>, <<"n", "y">>} :
    \E hi \in {Absent, <<"y">>} :
    \E fi \in {Absent, <<2>>, <<-1, 0>>} :
    \E ax \in {Absent, <<2>>} :
    \E ay \in {Absent, <<3, 2>>} :
    \E iv \in {Absent, <<"x">>, <<"y">>, <<"b">>} :
    \E ou \in {None, "", "fig.png"} :
        LET deco == ou # None
            a == [NoArgs EXCEPT !.error = er, !.hist = hi, !.fit = fi, !.sx = ax,
                                !.sy = ay, !.invplot = iv, !.output = ou]
        IN  Start(IF deco THEN Decorated(a) ELSE a, fs)

Spec == Init /\ [][Next]_vars

\* the lines input files are made of in the ingestion specification
SampleLines ==
    {MkLine("", <<Num(1), Num(2)>>, " "),
     MkLine("", <<Num(3), Num(4), Num(5)>>, ","),
     MkLine("", <<Num(10), Num(7), Word("x")>>, " "),
     MkLine("#", <<Num(9)>>, " "),
     MkLine("@", <<Word("x")>>, " ")}

RECURSIVE SumTo(_, _)
SumTo(f, n) == IF n = 0 THEN 0 ELSE f[n] + SumTo(f, n - 1)

\* ingestion: up to MaxFiles files sharing up to MaxLines lines, each file
\* with or without the newline that ends its last line
InitRead ==
    \E n \in 1..MaxFiles :
    \E total \in 0..MaxLines :
    \E flat \in [1..total -> SampleLines] :
    \E lens \in [1..n -> 0..total] :
    \E nls \in [1..n -> BOOLEAN] :
    \E er \in {Absent, <<"n", "y">>, Repeat("y", n)} :
        /\ SumTo(lens, n) = total
        /\ \A k \in 1..n : lens[k] = 0 => nls[k]
        /\ Start([NoArgs EXCEPT !.error = er],
                 [k \in 1..n |->
                    MkFile(SubSeq(flat, SumTo(lens, k - 1) + 1, SumTo(lens, k)), nls[k])])

SpecRead == InitRead /\ [][Next]_vars

\* styling: up to MaxStyleFiles copies of one file and the per-series options
InitStyle ==
    \E n \in 1..MaxStyleFiles :
    \E er \in {Absent, <<"y">>, Repeat("y", n)} :
    \E hi \in {Absent, <<"y">>} :
    \E co \in {Absent, <<"navy">>} :
    \E ec \in {Absent, <<"gray">>} :
    \E lw \in {Absent, <<2>>} :
    \E ls \in {Absent, <<"--">>} :
    \E ma \in {Absent, <<"o">>} :
    \E ms \in {Absent, <<50>>} :
    \E fi \in {Absent, <<1>>} :
    \E la \in {Absent, <<"a">>} :
        Start([NoArgs EXCEPT !.error = er, !.hist = hi, !.color = co, !.ecolor = ec,
                             !.linewidth = lw, !.linestyle = ls, !.marker = ma,
                             !.markersize = ms, !.fit = fi, !.labels = la],
              Repeat(GoodFile, n))

SpecStyle == InitStyle /\ [][Next]_vars

(***************************************************************************)
(* What the input files hold, read off their description: the vocabulary  *)
(* of the properties below.                                                *)
(***************************************************************************)
NumFiles == Len(files)
IsComment(l) == l.lead \in {"#", "@"}
NotComment(l) == ~IsComment(l)
\* whether field c of line l is there and is a number
HasNum(l, c) == Len(l.toks) > c /\ l.toks[c + 1].word = ""
\* field c of every line of ls
Vals(ls, c) == [k \in 1..Len(ls) |-> ls[k].toks[c + 1].val]
AllZero(s) == \A k \in 1..Len(s) : s[k] = 0

\* the lines of f that are not comment or metadata lines
DataLines(f) == SelectSeq(f.lines, NotComment)
\* the lines of f that end with a newline, and its data lines among them
TerminatedLines(f) == IF f.nl THEN f.lines ELSE DropLast(f.lines)
TerminatedData(f) == SelectSeq(TerminatedLines(f), NotComment)

\* the error flag the command line gives file k (1-based), "n" by default
FlagOf(k) == IF args.error = Absent THEN "n" ELSE args.error[k]
FlagsCover == args.error = Absent \/ Len(args.error) >= NumFiles

\* read_in_data has returned / has raised
ReadReturned == pc = "inverse"
ReadRaised == pc = "crashed" /\ x = <<>>

\* a file of comment lines and two-column data lines only
TwoColumnFile(f) ==
    /\ f.exists
    /\ \A k \in 1..Len(f.lines) :
          IsComment(f.lines[k])
          \/ (Len(f.lines[k].toks) = 2 /\ HasNum(f.lines[k], 0) /\ HasNum(f.lines[k], 1))

(***************************************************************************)
(* C1.  For every input file whose text contains N valid data lines (the   *)
(* lines left after discarding those that begin with '@' or '#') and no    *)
(* third column, read_in_data yields an x and a y sequence of length N     *)
(* holding columns 0 and 1 in file order and an error sequence of N zeros, *)
(* whatever the file's error flag.  The code drops the text after the last *)
(* newline, so a last data line that no newline ends is lost.              *)
(***************************************************************************)
C1_EveryDataLineIsRead ==
    (ReadReturned \/ ReadRaised) =>
        ((FlagsCover /\ \A k \in 1..NumFiles : TwoColumnFile(files[k])) =>
            /\ ReadReturned
            /\ \A k \in 1..NumFiles :
                  /\ Len(x[k]) = Len(DataLines(files[k]))
                  /\ x[k] = Vals(DataLines(files[k]), 0)
                  /\ y[k] = Vals(DataLines(files[k]), 1)
                  /\ e[k] = Repeat(0, Len(DataLines(files[k]))))

\* a file read_in_data parses: its kept lines have numeric columns 0 and 1
ReadableFile(f) ==
    /\ f.exists
    /\ \A k \in 1..Len(TerminatedLines(f)) :
          LET l == TerminatedLines(f)[k]
          IN  IsComment(l) \/ (HasNum(l, 0) /\ HasNum(l, 1))

\* column 2 is a number on every data line read_in_data keeps
HasErrorColumn(f) == \A k \in 1..Len(TerminatedData(f)) : HasNum(TerminatedData(f)[k], 2)

(***************************************************************************)
(* C2.  For every file the error sequence read_in_data returns is as long  *)
(* as the file's x sequence; it is column 2 of the data lines when the     *)
(* file's error flag is 'y' and column 2 is a number on every data line;   *)
(* it is all zeros when the flag is not 'y', and all zeros, with the read  *)
(* succeeding and x and y as they are otherwise, when the flag is 'y' but  *)
(* column 2 is missing or not a number on some data line.  The data lines  *)
(* are those read_in_data keeps: the newline-terminated, non-comment ones. *)
(***************************************************************************)
C2_ErrorColumn ==
    (ReadReturned \/ ReadRaised) =>
        ((FlagsCover /\ \A k \in 1..NumFiles : ReadableFile(files[k])) =>
            /\ ReadReturned
            /\ \A k \in 1..NumFiles :
                  /\ Len(e[k]) = Len(x[k])
                  /\ x[k] = Vals(TerminatedData(files[k]), 0)
                  /\ y[k] = Vals(TerminatedData(files[k]), 1)
                  /\ IF FlagOf(k) = "y" /\ HasErrorColumn(files[k])
                     THEN e[k] = Vals(TerminatedData(files[k]), 2)
                     ELSE AllZero(e[k]))

\* two files read with the flag 'y': one whose error column is returned, one
\* that falls back to zeros because a data line has no numeric column 2
C2_Witness ==
    /\ ReadReturned
    /\ \E k, j \in 1..NumFiles :
          /\ FlagOf(k) = "y" /\ HasErrorColumn(files[k])
          /\ e[k] # <<>> /\ ~AllZero(e[k])
          /\ FlagOf(j) = "y" /\ ~HasErrorColumn(files[j])
          /\ e[j] # <<>> /\ AllZero(e[j])

(***************************************************************************)
(* The vocabulary of the properties of the plot loop and the output.       *)
(***************************************************************************)
AfterPlot == {"cosmetics", "output", "exit", "done"}
PrimaryFns == {"errorbar", "bar", "plot"}
OutputFns == {"show", "close", "savefig"}
CosmeticFns ==
    {"xlabel", "ylabel", "tick_params", "minorticks_on", "xscale", "yscale",
     "xaxis.set_major_locator", "xaxis.set_minor_locator", "yaxis.set_major_locator",
     "yaxis.set_minor_locator", "subplots_adjust", "legend", "xlim", "ylim", "text"}

\* how many series the loop has finished
SeriesDone == IF pc \in AfterPlot THEN NumFiles ELSE i
\* the positions in calls of the drawing call / the spline call of series k
PrimaryOf(k) == {n \in 1..Len(calls) : calls[n].fn \in PrimaryFns /\ calls[n].series = k}
OverlayOf(k) == {n \in 1..Len(calls) : calls[n].fn = "plot_fit" /\ calls[n].series = k}
CallsOf(fns) == {n \in 1..Len(calls) : calls[n].fn \in fns}

\* what read_in_data returns for file k (1-based), read off the file
ExpectedX(k) == Vals(TerminatedData(files[k]), 0)
ExpectedY(k) == Vals(TerminatedData(files[k]), 1)
ExpectedE(k) ==
    IF FlagOf(k) = "y" /\ HasErrorColumn(files[k])
    THEN Vals(TerminatedData(files[k]), 2)
    ELSE Repeat(0, Len(TerminatedData(files[k])))

\* the drawing mode the command line asks for series k
ExpectedMode(k) ==
    IF FlagOf(k + 1) = "y" THEN "errorbar"
    ELSE IF args.hist = <<"y">> THEN "bar"
    ELSE "plot"

(***************************************************************************)
(* C3.  Every series is drawn by exactly one primary drawing call, chosen  *)
(* in priority order: errorbar when the series' error flag is 'y',         *)
(* whatever --hist says; otherwise bar when --hist is 'y'; otherwise plot. *)
(***************************************************************************)
C3_ModePriority ==
    /\ \A k \in 0..(NumFiles - 1) : Cardinality(PrimaryOf(k)) <= 1
    /\ \A k \in 0..(SeriesDone - 1) :
          /\ Cardinality(PrimaryOf(k)) = 1
          /\ \A n \in PrimaryOf(k) : calls[n].fn = ExpectedMode(k)

\* a finished run with --hist y that drew series 0 as bars and series 1,
\* whose error flag is 'y', with error bars
C3_Witness ==
    /\ pc = "done"
    /\ args.hist = <<"y">>
    /\ args.error = <<"n", "y">>
    /\ \E n \in PrimaryOf(0) : calls[n].fn = "bar"
    /\ \E n \in PrimaryOf(1) : calls[n].fn = "errorbar"

\* the inverse step is over; b holds the reciprocals of a
InverseActed == pc = "scale" \/ (pc = "crashed" /\ err = "TypeError")
IsReciprocal(a, b) == Len(a) = Len(b) /\ \A j \in 1..Len(a) : a[j] * b[j] = 1

(***************************************************************************)
(* C6.  With --invplot x or b every x value of every series is replaced by *)
(* its reciprocal, with y or b every y and every error value; the values   *)
(* of an axis not selected are unchanged.  The code divides 1. by the list *)
(* read_in_data returns, which raises TypeError.                           *)
(***************************************************************************)
C6_InverseIsReciprocal ==
    InverseActed =>
        /\ pc = "scale"
        /\ \A k \in 1..NumFiles :
              /\ IF args.invplot \in {<<"x">>, <<"b">>}
                 THEN IsReciprocal(x[k], ExpectedX(k))
                 ELSE x[k] = ExpectedX(k)
              /\ IF args.invplot \in {<<"y">>, <<"b">>}
                 THEN IsReciprocal(y[k], ExpectedY(k)) /\ IsReciprocal(e[k], ExpectedE(k))
                 ELSE y[k] = ExpectedY(k) /\ e[k] = ExpectedE(k)

\* the factor given for series k, the scaled values, the scale step is over
Factor(s, k) == IF s = Absent THEN 1 ELSE s[k]
Times(a, f) == [j \in 1..Len(a) |-> f * a[j]]
ScaleActed == pc \in {"figure", "plot"} \cup AfterPlot \/ (pc = "crashed" /\ calls # <<>>)

(***************************************************************************)
(* C7.  With -sy every y value and every error value of series i is        *)
(* multiplied by the factor s[i] and the x values are unchanged; with -sx  *)
(* every x value of series i is multiplied by s[i] and the y and error     *)
(* values are unchanged; with neither flag nothing changes.  Scaling comes *)
(* after the inverse step: until that step is over nothing is scaled.      *)
(***************************************************************************)
C7_Scaling ==
    /\ pc \in {"inverse", "scale"} =>
          \A k \in 1..NumFiles :
              x[k] = ExpectedX(k) /\ y[k] = ExpectedY(k) /\ e[k] = ExpectedE(k)
    /\ ScaleActed =>
          \A k \in 1..NumFiles :
              /\ x[k] = Times(ExpectedX(k), Factor(args.sx, k))
              /\ y[k] = Times(ExpectedY(k), Factor(args.sy, k))
              /\ e[k] = Times(ExpectedE(k), Factor(args.sy, k))

\* two series scaled by different -sy factors, the second with an error
\* column, and x left alone
C7_Witness ==
    /\ pc = "figure"
    /\ args.sy = <<3, 2>> /\ args.sx = Absent
    /\ NumFiles = 2
    /\ ~AllZero(e[2])
    /\ y[1] # ExpectedY(1) /\ y[2] # ExpectedY(2) /\ e[2] # ExpectedE(2)
    /\ x[1] = ExpectedX(1) /\ x[2] = ExpectedX(2)

IsMinOf(v, a) == (\E j \in 1..Len(a) : a[j] = v) /\ \A j \in 1..Len(a) : v <= a[j]
IsMaxOf(v, a) == (\E j \in 1..Len(a) : a[j] = v) /\ \A j \in 1..Len(a) : v >= a[j]

(***************************************************************************)
(* C8.  A spline is drawn for series i exactly when fit[i] >= 0; without   *)
(* --fit no spline is drawn; each spline is evaluated at exactly 100       *)
(* points from min(x) to max(x) of its series and is drawn right after the *)
(* series' primary call.                                                   *)
(***************************************************************************)
C8_SplineOverlay ==
    /\ \A k \in 0..(NumFiles - 1) : Cardinality(OverlayOf(k)) <= 1
    /\ \A k \in 0..(SeriesDone - 1) :
          (OverlayOf(k) # {}) <=> (args.fit # Absent /\ args.fit[k + 1] >= 0)
    /\ args.fit = Absent => CallsOf({"plot_fit"}) = {}
    /\ \A n \in CallsOf({"plot_fit"}) :
          /\ calls[n].xs.num = 100
          /\ IsMinOf(calls[n].xs.start, x[calls[n].series + 1])
          /\ IsMaxOf(calls[n].xs.stop, x[calls[n].series + 1])
          /\ n > 1 /\ (n - 1) \in PrimaryOf(calls[n].series)

\* a finished run whose first series has a negative factor and no spline
\* and whose second has the factor 0 and a spline
C8_Witness ==
    /\ pc = "done"
    /\ args.fit = <<-1, 0>>
    /\ OverlayOf(0) = {}
    /\ \E n \in OverlayOf(1) : calls[n].xs.start < calls[n].xs.stop

\* no output path, or the empty one
NoPathGiven == args.output \in {None, ""}

(***************************************************************************)
(* C9.  A run that reaches the output step does exactly one of two things, *)
(* once: with no output path it shows the figure and then closes it, and   *)
(* saves nothing; otherwise it saves the figure to the path at 300 dpi and *)
(* shows nothing.  This happens after every series was drawn and the axis  *)
(* cosmetics were applied, and then the process exits.                     *)
(***************************************************************************)
C9_OneOutput ==
    /\ pc \notin {"exit", "done"} => CallsOf(OutputFns) = {}
    /\ pc \in {"exit", "done"} =>
          /\ IF NoPathGiven
             THEN /\ Len(calls) >= 2
                  /\ calls[Len(calls) - 1].fn = "show"
                  /\ calls[Len(calls)].fn = "close"
                  /\ CallsOf(OutputFns) = {Len(calls) - 1, Len(calls)}
             ELSE /\ Len(calls) >= 1
                  /\ calls[Len(calls)] = [fn |-> "savefig", path |-> args.output, dpi |-> 300]
                  /\ CallsOf(OutputFns) = {Len(calls)}
          /\ \A k \in 0..(NumFiles - 1) : PrimaryOf(k) # {}
          /\ \A n \in CallsOf(PrimaryFns \cup {"plot_fit"}) :
                \A m \in CallsOf(CosmeticFns) : n < m
          /\ Cardinality(CallsOf({"xlabel"})) = 1 /\ Cardinality(CallsOf({"ylabel"})) = 1
          /\ \A m \in CallsOf(CosmeticFns) : \A o \in CallsOf(OutputFns) : m < o
    /\ pc = "exit" => ENABLED Exit
    /\ pc = "done" => ~ENABLED Next

\* a finished run that saved to the path given, after drawing two series
C9_Witness ==
    /\ pc = "done"
    /\ NumFiles = 2
    /\ args.output = "fig.png"
    /\ calls[Len(calls)].fn = "savefig"

\* the failures of the input and of the command line
MissingInput == \E k \in 1..NumFiles : ~files[k].exists
MalformedInput == \E k \in 1..NumFiles : files[k].exists /\ ~ReadableFile(files[k])
IsShort(v) == v # Absent /\ Len(v) < NumFiles
\* the per-series lists every drawing mode reads
ShortList ==
    \/ IsShort(args.error) \/ IsShort(args.sx) \/ IsShort(args.sy)
    \/ IsShort(args.fit) \/ IsShort(args.color) \/ IsShort(args.labels)
InputFailure == MissingInput \/ MalformedInput \/ ShortList

Broadcast(given, resolved) ==
    (given # Absent /\ Len(given) < NumFiles /\ pc = "plot") =>
        Defined(resolved, i) /\ At(resolved, i) = given[1]

UsedAsGiven(given, resolved) == (given # Absent /\ pc # "args") => resolved = given
DefaultRepeated(given, resolved, d) ==
    (given = Absent /\ pc # "args") =>
        /\ Len(resolved) = NumFiles
        /\ \A k \in 1..NumFiles : resolved[k] = d
        /\ pc = "plot" => Defined(resolved, i)
PaletteDefault(given, resolved, size) ==
    (given = Absent /\ pc # "args") =>
        Len(resolved) = IF NumFiles < size THEN NumFiles ELSE size

Palette ==
    <<"black", "red", "blue", "green", "purple", "magenta", "cyan", "orange", "yellow">>

====
